---- MODULE Spec2Model ----
(***************************************************************************)
(* Model of the bearer-token authentication gate of eds-avatar-bff          *)
(* (src/middleware/auth.ts): authenticateToken, getKey, the JWKS client     *)
(* configured there (cache, rate limit) and the jwt.verify pipeline that    *)
(* authenticateToken drives with getKey as its key callback.                *)
(*                                                                         *)
(* Time is counted in whole minutes (one Tick = 60000 ms).                 *)
(***************************************************************************)
EXTENDS Integers, Sequences, FiniteSets, TLC

\* ---------------------------------------------------------------- bounds
MaxClock == 2
\* the last value of the rate limiter's clock when it is followed in steps of
\* one drip period (a fifth of a minute)
MaxDrips == 6

\* ------------------------------------------------- configuration (policy)
\* config.jwksCacheMaxAgeMs, in minutes; validateConfig admits 60000..3600000 ms
jwksCacheMaxAge == 1
\* config.jwksCacheMaxEntries; validateConfig admits 1..100
jwksCacheMaxEntries == 1
\* jwksRequestsPerMinute of the JWKS client
jwksRequestsPerMinute == 5
\* config.jwksRequestTimeoutMs, in minutes rounded up: validateConfig admits
\* 5000..60000 ms, so a request is in flight across at most one change of the clock
jwksRequestTimeout == 1

jwtIssuer == "eds-avatar-bff"
jwtAudience == "eds-avatar-frontend"
jwtVerifyAlgorithms == {"RS256", "HS256"}

\* ------------------------------------------------------------ input space
NoKid == "nokid"
Kids == {"k1", "k2"}
Algs == {"RS256", "HS256", "none"}
ExpEarly == 1
ExpLate == 9

\* A well-formed token: three segments whose header and payload decode.
\* sig is the third segment: "good" (verifies under the key published for kid
\* with the declared algorithm), "bad", or "absent" (the empty third segment
\* of an unsecured token, the only tokens taken to have one).
SigsOf(alg) == IF alg = "none" THEN {"absent", "bad"} ELSE {"bad", "good"}

TokensWith(kids, subs) ==
  {t \in [formed : {TRUE}, alg : Algs, kid : kids,
          sig : {"absent", "bad", "good"}, exp : {ExpEarly, ExpLate},
          iss : {jwtIssuer, "other-issuer"},
          aud : {jwtAudience, "wrong-audience"}, sub : subs] :
     t.sig \in SigsOf(t.alg)}

WellFormedTokens == TokensWith({"k1", NoKid}, {"", "u1"})

\* 'invalid-token': a non-empty string that is not three decodable segments
MalformedToken ==
  [formed |-> FALSE, alg |-> "none", kid |-> NoKid, sig |-> "absent",
   exp |-> ExpLate, iss |-> "other-issuer", aud |-> "wrong-audience", sub |-> ""]

Tokens == WellFormedTokens \cup {MalformedToken}

\* req.headers.authorization: absent, a value without the 'Bearer ' prefix,
\* or 'Bearer ' followed by rest (rest = <<>> is the empty string).
NoHeader == [form |-> "absent", rest |-> <<>>]
Headers ==
  {NoHeader, [form |-> "other", rest |-> <<>>], [form |-> "bearer", rest |-> <<>>]}
  \cup {[form |-> "bearer", rest |-> <<t>>] : t \in Tokens}

\* Representative headers used when two requests are in flight together:
\* valid tokens of two users under one kid and of one user under another
ConcTokens ==
  {t \in TokensWith(Kids, {"u1", "u2"}) :
     /\ t.alg = "RS256" /\ t.exp = ExpLate /\ t.iss = jwtIssuer
     /\ t.aud = jwtAudience /\ t.sig = "good"
     /\ (t.kid = "k1" \/ t.sub = "u1")}
ConcHeaders == {[form |-> "bearer", rest |-> <<t>>] : t \in ConcTokens}

\* One valid token per kid, of more kids than the key cache can hold
LruKids == Kids \cup {"k3"}
ValidToken(kid) ==
  [formed |-> TRUE, alg |-> "RS256", kid |-> kid, sig |-> "good", exp |-> ExpLate,
   iss |-> jwtIssuer, aud |-> jwtAudience, sub |-> "u1"]
LruHeaders == {[form |-> "bearer", rest |-> <<ValidToken(kid)>>] : kid \in LruKids}

\* The header as text, in pieces: the scheme word, the spaces after it and
\* the token, e.g. <<"Bearer", " ", t>> for 'Bearer <t>'.
HeaderTexts ==
  {<<scheme>> \o spaces \o <<ValidToken("k1")>> :
     scheme \in {"Bearer", "bearer", "BEARER"},
     spaces \in {<<" ">>, <<" ", " ">>}}

\* authHeader.startsWith('Bearer ')
startsWithBearer(text) == Len(text) >= 2 /\ text[1] = "Bearer" /\ text[2] = " "

\* authHeader.slice(7): the text after 'Bearer ', as the token string it is:
\* a token preceded by a space is three segments the first of which does not
\* decode
slice7(text) ==
  LET tail == SubSeq(text, 3, Len(text)) IN
  IF Len(tail) > 1 THEN <<[tail[Len(tail)] EXCEPT !.formed = FALSE]>> ELSE tail

\* the header of a request whose Authorization header is text
HeaderOf(text) ==
  IF startsWithBearer(text) THEN [form |-> "bearer", rest |-> slice7(text)]
  ELSE [form |-> "other", rest |-> <<>>]

\* A valid token whose kid the issuer does not publish, presented repeatedly
RateHeaders == {[form |-> "bearer", rest |-> <<ValidToken("k1")>>]}

\* Two tokens for calls that are compared with each other: one that expires
\* while requests are in flight, and one of another kid
DetTokens ==
  {[ValidToken("k1") EXCEPT !.exp = ExpEarly], ValidToken("k2")}
DetHeaders == {[form |-> "bearer", rest |-> <<t>>] : t \in DetTokens}

\* Requests to POST /api/token/deepgram: without a token, with a valid one,
\* with one whose signature does not verify, with a verified one that has no
\* subject
RouteHeaders ==
  {NoHeader} \cup
  {[form |-> "bearer", rest |-> <<t>>] :
     t \in {ValidToken("k1"), [ValidToken("k1") EXCEPT !.sig = "bad"],
            [ValidToken("k1") EXCEPT !.sub = ""]}}

Slots == {"r1", "r2"}

\* the headers requests are drawn from
Pool(m) ==
  IF m = "seq" THEN Headers \cup {HeaderOf(text) : text \in HeaderTexts}
  ELSE IF m = "lru" THEN LruHeaders
  ELSE IF m = "rate" THEN RateHeaders
  ELSE IF m = "det" THEN DetHeaders
  ELSE IF m = "route" THEN RouteHeaders
  ELSE ConcHeaders

VARIABLES
  now,       \* Date.now(), in minutes
  cache,     \* the JWKS client's key cache: sequence of [kid, at], least recently used first
  loading,   \* kids with a JWKS request in flight
  used,      \* JWKS requests issued in the current minute (rate limiter)
  req,       \* per request slot: the state of one authenticateToken call
  limiter,   \* the rest of the rate limiter: clock (its own clock, in drip
             \* periods), curIntervalStart, content (tokens in its bucket),
             \* sent (clock values of the latest requests it let through)
  issued,    \* the tokens generateToken has returned
  boot,      \* the process from its start: env (process.env), status of the
             \* load of the configuration module, the error it threw, client
             \* (the jwksUri the JWKS client was created with), constructed
             \* (what constructJwksUri made of the issuer), fetched (the URL
             \* a JWKS request went to)
  health,    \* the health route: clock (Date.now(), in ms), ticks (steps of
             \* the clock so far), cache (deepgramHealthCache: <<>> for
             \* null), probes (calls of checkConnectivity so far), calls
             \* (per slot, one GET /api/health)
  mode       \* "health": requests to the health route;
             \* "config": the load of the configuration module;
             \* "route": one request at a time through the token route;
             \* "seq": one request at a time; "conc": two requests in flight;
             \* "lru": one request at a time, more kids than cache entries;
             \* "rate": one request at a time, the clock in drip periods;
             \* "det": two requests in flight, each call keeping what the
             \* resolver's state was when it started

vars == <<now, cache, loading, used, req, mode, limiter, issued, boot, health>>

\* the headers that carry a token generateToken returned
IssuedHeaders == {[form |-> "bearer", rest |-> <<t>>] : t \in issued}

\* ------------------------------------------------------------- responses
NoResponse == [status |-> 0, error |-> "", message |-> <<>>]

\* res.status(401).json({error: 'Unauthorized', message: 'Access token is required'})
MissingTokenResponse ==
  [status |-> 401, error |-> "Unauthorized", message |-> <<"Access token is required">>]

\* res.status(403).json({error: 'Forbidden', message: `Token validation failed: ${reason}`})
ForbiddenResponse(reason) ==
  [status |-> 403, error |-> "Forbidden",
   message |-> <<"Token validation failed: ">> \o reason]

\* the JSON body res.json(...) sends with a response
Body(res) == [error |-> res.error, message |-> res.message]

MissingSubjectReason == <<"Invalid token payload - missing subject">>

\* ------------------------------------------------------ the verifier (jwt.verify)
\* The checks jwt.verify makes on the token string before it asks the key
\* callback for a key: a non-empty string of three segments that decode.
VerifyDecode(str) ==
  IF str = <<>> THEN <<"jwt must be provided">>
  ELSE IF ~str[1].formed
    THEN IF str[1] = MalformedToken THEN <<"jwt malformed">>
         ELSE <<"invalid token">>
  ELSE <<>>

\* getKey without its kid guard
getKeyNoGuard(tok) == <<>>

\* getKey's own guard: without a kid in the header the callback gets an error
\* and client.getSigningKey is not called.
getKey(tok) ==
  IF tok.kid = NoKid THEN <<"Missing kid in token header">> ELSE <<>>

\* An error handed to jwt.verify by the key callback
KeyCallbackError(msg) == <<"error in secret or public key callback: ">> \o msg

\* VerifyWithKey with the audience option left out
VerifyWithKeyNoAudience(tok, t) ==
  IF tok.sig = "absent" THEN <<"jwt signature is required">>
  ELSE IF tok.alg \notin jwtVerifyAlgorithms THEN <<"invalid algorithm">>
  ELSE IF tok.alg = "HS256"
    THEN <<"secretOrPublicKey must be a symmetric key when using HS256">>
  ELSE IF tok.sig # "good" THEN <<"invalid signature">>
  ELSE IF t >= tok.exp THEN <<"jwt expired">>
  ELSE IF tok.iss # jwtIssuer
    THEN <<"jwt issuer invalid. expected: ", jwtIssuer>>
  ELSE <<>>

\* VerifyWithKey with expiration ignored
VerifyWithKeyNoExpiry(tok, t) ==
  IF tok.sig = "absent" THEN <<"jwt signature is required">>
  ELSE IF tok.alg \notin jwtVerifyAlgorithms THEN <<"invalid algorithm">>
  ELSE IF tok.alg = "HS256"
    THEN <<"secretOrPublicKey must be a symmetric key when using HS256">>
  ELSE IF tok.sig # "good" THEN <<"invalid signature">>
  ELSE IF tok.aud # jwtAudience
    THEN <<"jwt audience invalid. expected: ", jwtAudience>>
  ELSE IF tok.iss # jwtIssuer
    THEN <<"jwt issuer invalid. expected: ", jwtIssuer>>
  ELSE <<>>

\* VerifyWithKey validating the claim set before it checks the signature
VerifyWithKeyClaimsFirst(tok, t) ==
  IF tok.sig = "absent" THEN <<"jwt signature is required">>
  ELSE IF tok.alg \notin jwtVerifyAlgorithms THEN <<"invalid algorithm">>
  ELSE IF tok.alg = "HS256"
    THEN <<"secretOrPublicKey must be a symmetric key when using HS256">>
  ELSE IF t >= tok.exp THEN <<"jwt expired">>
  ELSE IF tok.aud # jwtAudience
    THEN <<"jwt audience invalid. expected: ", jwtAudience>>
  ELSE IF tok.iss # jwtIssuer
    THEN <<"jwt issuer invalid. expected: ", jwtIssuer>>
  ELSE IF tok.sig # "good" THEN <<"invalid signature">>
  ELSE <<>>

\* The checks jwt.verify makes once the key callback has delivered a public key,
\* in the order it makes them, at time t; <<>> means the token is verified.
VerifyWithKey(tok, t) ==
  IF tok.sig = "absent" THEN <<"jwt signature is required">>
  ELSE IF tok.alg \notin jwtVerifyAlgorithms THEN <<"invalid algorithm">>
  ELSE IF tok.alg = "HS256"
    THEN <<"secretOrPublicKey must be a symmetric key when using HS256">>
  ELSE IF tok.sig # "good" THEN <<"invalid signature">>
  ELSE IF t >= tok.exp THEN <<"jwt expired">>
  ELSE IF tok.aud # jwtAudience
    THEN <<"jwt audience invalid. expected: ", jwtAudience>>
  ELSE IF tok.iss # jwtIssuer
    THEN <<"jwt issuer invalid. expected: ", jwtIssuer>>
  ELSE <<>>

\* the errors of jwt.verify's claim checks (after the signature verified)
ClaimErrors == {"jwt expired", "jwt audience invalid. expected: ",
                "jwt issuer invalid. expected: "}

\* The stages jwt.verify passes once the key callback has delivered a key:
\* the signature is checked first, the claim set after it.
StagesWithKey(tok, t) ==
  LET e == VerifyWithKey(tok, t) IN
  IF e = <<>> THEN <<"SignatureChecked", "ClaimsValidated">>
  ELSE IF e[1] \in ClaimErrors THEN <<"SignatureChecked">>
  ELSE <<>>

\* jwt.verify reading the clock when the key arrives
clockTimestampAtKey(rq, t) == t

\* const clockTimestamp = Math.floor(Date.now() / 1000): jwt.verify reads the
\* clock once, when it is called, before it asks the key callback for a key;
\* t is the time at which the key is delivered.
clockTimestamp(rq, t) == rq.at

\* decoded payload handed to the verify callback
Payload(tok) == [sub |-> tok.sub, iss |-> tok.iss, aud |-> tok.aud, exp |-> tok.exp]

\* config.jwtAlgorithm, the algorithm generateToken signs with (default)
jwtAlgorithm == "RS256"

\* exp: now + (15 * 60): the lifetime of a generated token, in minutes
TokenLifetime == 15

\* generateToken(payload) at time t: jwt.sign(tokenPayload, config.jwtSecret,
\* {algorithm: config.jwtAlgorithm}). The payload gets exp, iss and aud from
\* the configuration; the header jwt.sign writes holds alg and typ only, no
\* kid; the signature is the one made with config.jwtSecret.
generateToken(payload, t) ==
  [formed |-> TRUE, alg |-> jwtAlgorithm, kid |-> NoKid, sig |-> "good",
   exp |-> t + TokenLifetime, iss |-> jwtIssuer, aud |-> jwtAudience,
   sub |-> payload.sub]

\* ------------------------------------------------------------ the gate
\* const token = authHeader?.startsWith('Bearer ') ? authHeader.slice(7) : null
ExtractToken(h) ==
  IF h.form = "bearer" THEN [null |-> FALSE, str |-> h.rest]
  ELSE [null |-> TRUE, str |-> <<>>]

\* the gate testing token === null instead of !token
TokenMissingNullOnly(token) == token.null

\* if (!token): null and the empty string are both falsy
TokenMissing(token) == token.null \/ token.str = <<>>

\* the callback calling next() without attaching the payload
VerifyCallbackNoAttach(rq, err, tok) ==
  IF err # <<>>
    THEN [rq EXCEPT !.pc = "done", !.res = ForbiddenResponse(err),
                    !.responses = @ + 1]
  ELSE IF Payload(tok).sub = ""
    THEN [rq EXCEPT !.pc = "done", !.verified = TRUE,
                    !.res = ForbiddenResponse(MissingSubjectReason),
                    !.responses = @ + 1]
  ELSE [rq EXCEPT !.pc = "done", !.verified = TRUE, !.nextCalls = @ + 1]

\* the callback without the payload.sub check
VerifyCallbackNoSubCheck(rq, err, tok) ==
  IF err # <<>>
    THEN [rq EXCEPT !.pc = "done", !.res = ForbiddenResponse(err),
                    !.responses = @ + 1]
  ELSE [rq EXCEPT !.pc = "done", !.verified = TRUE,
                  !.user = <<Payload(tok)>>, !.nextCalls = @ + 1]

\* the callback without the return after the missing-subject response: it
\* answers 403 and goes on to attach the payload and call next()
VerifyCallbackFallsThrough(rq, err, tok) ==
  IF err # <<>>
    THEN [rq EXCEPT !.pc = "done", !.res = ForbiddenResponse(err),
                    !.responses = @ + 1]
  ELSE IF Payload(tok).sub = ""
    THEN [rq EXCEPT !.pc = "done", !.verified = TRUE,
                    !.res = ForbiddenResponse(MissingSubjectReason),
                    !.responses = @ + 1,
                    !.user = <<Payload(tok)>>, !.nextCalls = @ + 1]
  ELSE [rq EXCEPT !.pc = "done", !.verified = TRUE,
                  !.user = <<Payload(tok)>>, !.nextCalls = @ + 1]

\* The callback authenticateToken passes to jwt.verify: err is the verifier's
\* error message (<<>> for none), tok the token whose payload was decoded.
VerifyCallback(rq, err, tok) ==
  IF err # <<>>
    THEN [rq EXCEPT !.pc = "done", !.res = ForbiddenResponse(err),
                    !.responses = @ + 1, !.err = err,
                    !.stages = @ \o <<"Rejected">>]
  ELSE IF Payload(tok).sub = ""
    THEN [rq EXCEPT !.pc = "done", !.verified = TRUE,
                    !.res = ForbiddenResponse(MissingSubjectReason),
                    !.responses = @ + 1,
                    !.stages = @ \o <<"Rejected">>]
  ELSE [rq EXCEPT !.pc = "done", !.verified = TRUE,
                  !.user = <<Payload(tok)>>, !.nextCalls = @ + 1,
                  !.stages = @ \o <<"Accepted">>]

\* ------------------------------------------------------ the JWKS client
\* cacheMaxEntries: config.jwksCacheMaxEntries of the deployment explored
cacheMaxEntries ==
  IF mode = "lru" THEN jwksCacheMaxEntries + 1 ELSE jwksCacheMaxEntries

CacheKids(c) == {c[i].kid : i \in DOMAIN c}
CacheIndex(c, kid) == CHOOSE i \in DOMAIN c : c[i].kid = kid
Without(c, kid) == SelectSeq(c, LAMBDA e : e.kid # kid)

\* a cache without max age
IsStaleNever(e, t) == FALSE

\* an entry is stale once its age exceeds the max age
IsStale(e, t) == t - e.at > jwksCacheMaxAge

\* a client created with cache: false
CacheHitNever(c, kid, t) == FALSE

\* cache lookup: a fresh entry is a hit
CacheHit(c, kid, t) ==
  /\ kid \in CacheKids(c)
  /\ ~IsStale(c[CacheIndex(c, kid)], t)

\* the cache holds an entry for kid that has gone stale
HasStale(c, kid, t) ==
  /\ kid \in CacheKids(c)
  /\ IsStale(c[CacheIndex(c, kid)], t)

\* a lookup that leaves the order of the entries alone
CacheAfterGetNoTouch(c, kid, t) ==
  IF kid \notin CacheKids(c) THEN c
  ELSE IF CacheHit(c, kid, t) THEN c
  ELSE Without(c, kid)

\* the cache after a lookup: a hit becomes the most recently used entry,
\* a stale entry is dropped
CacheAfterGet(c, kid, t) ==
  IF kid \notin CacheKids(c) THEN c
  ELSE IF CacheHit(c, kid, t)
    THEN Without(c, kid) \o <<c[CacheIndex(c, kid)]>>
  ELSE Without(c, kid)

\* storing a fetched key: a whole new entry; beyond cacheMaxEntries the
\* least recently used entry goes
CacheSet(c, kid, t) ==
  LET c1 == Without(c, kid) \o <<[kid |-> kid, at |-> t]>>
  IN IF Len(c1) > cacheMaxEntries THEN Tail(c1) ELSE c1

\* the entry storing kid's key pushes out of c, if any
Evicted(c, kid) ==
  IF kid \notin CacheKids(c) /\ Len(c) >= cacheMaxEntries THEN <<c[1]>> ELSE <<>>

\* a rate limiter without ceiling
RateLimitAllowsAlways(u) == TRUE

\* rate limiter: is a further JWKS request allowed in this interval
RateLimitAllows(u) == u < jwksRequestsPerMinute

\* The limiter's token bucket holds jwksRequestsPerMinute tokens and gains
\* one token per drip period, jwksRequestsPerMinute of them in a minute.
DripsPerMinute == jwksRequestsPerMinute
BucketSize == jwksRequestsPerMinute

\* curIntervalStart of an interval that is over
Expired == -1

\* drip periods the clock advances by in one step
DripStep == IF mode = "rate" THEN 1 ELSE DripsPerMinute

Min(a, b) == IF a < b THEN a ELSE b

\* tokensThisInterval as removeTokens sees it: a call that finds the interval
\* over starts a new one with a count of zero
TokensThisInterval == IF limiter.curIntervalStart = Expired THEN 0 ELSE used

\* removeTokens advancing to the next interval if needed
IntervalStart ==
  IF limiter.curIntervalStart = Expired THEN limiter.clock
  ELSE limiter.curIntervalStart

\* the clock values of the latest jwksRequestsPerMinute + 1 requests, the
\* one sent now included (followed where the clock moves in drip periods)
SentAt(sent, clock) ==
  IF mode # "rate" THEN sent
  ELSE LET l == sent \o <<clock>>
       IN IF Len(l) > jwksRequestsPerMinute + 1 THEN Tail(l) ELSE l

\* the limiter after it let a request through
LimiterTaken ==
  [limiter EXCEPT !.curIntervalStart = IntervalStart, !.content = @ - 1,
                  !.sent = SentAt(@, limiter.clock)]

\* the limiter after a call it did not let through
LimiterSeen == [limiter EXCEPT !.curIntervalStart = IntervalStart]

RateLimitError == <<"Too many requests to the JWKS endpoint">>
FetchOutcomes == {"found", "notfound", "error"}
FetchError(outcome) ==
  IF outcome = "notfound" THEN <<"Unable to find a signing key that matches the kid">>
  ELSE IF outcome = "timeout" THEN <<"JWKS request timed out">>
  ELSE <<"JWKS request failed">>

\* client.getSigningKey(header.kid, (err, key) => { if (err) return callback(err) ... }):
\* what getKey hands to jwt.verify for an error err of the client
getKeyCallback(err) == err

\* ------------------------------------------------- the configuration module
\* Texts are sequences of pieces. An issuer is written scheme, "//", host,
\* then an optional port, path pieces ("/" and segment names), an optional
\* query and an optional fragment; other texts are not URLs at all.
Schemes == {"https:", "http:", "ftp:", "HTTPS:"}
PortPieces == {":8443", ":443"}
SegmentPieces == {"auth0", ".well-known/jwks.json"}
QueryPieces == {"?tenant=test"}
FragmentPieces == {"#fragment"}

IssuerUrls ==
  {<<scheme, "//", "example.com">> \o port \o path \o query \o fragment :
     scheme \in Schemes,
     port \in {<<>>} \cup {<<p>> : p \in PortPieces},
     path \in {<<>>, <<"/">>, <<"/", "auth0">>, <<"/", "auth0", "/">>,
               <<"/", "auth0", "/", "/">>},
     query \in {<<>>} \cup {<<q>> : q \in QueryPieces},
     fragment \in {<<>>} \cup {<<f>> : f \in FragmentPieces}}

\* the default of JWT_ISSUER, the test suite's 'not-a-valid-url', the empty
\* string
NotUrls == {<<"eds-avatar-bff">>, <<"not-a-valid-url">>, <<>>}

IssuerTexts == IssuerUrls \cup NotUrls

\* the URL parser lower-cases the scheme
Lower(piece) == IF piece = "HTTPS:" THEN "https:" ELSE piece

\* the port a scheme implies, which the parser drops when it is written out
DefaultPort(protocol) ==
  IF protocol = "https:" THEN ":443"
  ELSE IF protocol = "http:" THEN ":80"
  ELSE ":21"

\* new URL(text): a TypeError (ok = FALSE) unless text is scheme, "//", host
\* and what may follow; the scheme is lower-cased, the scheme's default port
\* dropped, an empty path becomes "/", query and fragment are split off.
ParseUrl(text) ==
  IF Len(text) < 3 \/ text[1] \notin Schemes \/ text[2] # "//"
    THEN [ok |-> FALSE, protocol |-> "", host |-> "", port |-> <<>>,
          pathname |-> <<>>, search |-> <<>>, hash |-> <<>>]
  ELSE
    LET rest == SubSeq(text, 4, Len(text))
        protocol == Lower(text[1])
        path == SelectSeq(rest, LAMBDA p : p = "/" \/ p \in SegmentPieces)
    IN [ok |-> TRUE, protocol |-> protocol, host |-> text[3],
        port |-> SelectSeq(rest, LAMBDA p : p \in PortPieces
                                           /\ p # DefaultPort(protocol)),
        pathname |-> IF path = <<>> THEN <<"/">> ELSE path,
        search |-> SelectSeq(rest, LAMBDA p : p \in QueryPieces),
        hash |-> SelectSeq(rest, LAMBDA p : p \in FragmentPieces)]

\* url.toString()
SerializeUrl(url) ==
  <<url.protocol, "//", url.host>> \o url.port \o url.pathname
    \o url.search \o url.hash

\* url.pathname.endsWith('/')
endsWithSlash(pathname) == pathname # <<>> /\ pathname[Len(pathname)] = "/"

\* constructJwksUri without the test for a trailing slash: '/' and the
\* well-known path are always appended
constructJwksUriAlwaysSlash(issuer) ==
  LET url == ParseUrl(issuer) IN
  IF ~url.ok
    THEN [ok |-> FALSE, uri |-> <<>>,
          error |-> <<"Invalid issuer URL format: ">> \o issuer]
  ELSE IF url.protocol # "https:" /\ url.protocol # "http:"
    THEN [ok |-> FALSE, uri |-> <<>>,
          error |-> <<"Invalid issuer protocol: ", url.protocol,
                      ". Must be http: or https:">>]
  ELSE [ok |-> TRUE, error |-> <<>>,
        uri |-> SerializeUrl([url EXCEPT !.pathname =
                  url.pathname \o <<"/", ".well-known/jwks.json">>])]

\* constructJwksUri(issuer): the JWKS URI, or the error thrown
constructJwksUri(issuer) ==
  LET url == ParseUrl(issuer) IN
  IF ~url.ok
    THEN [ok |-> FALSE, uri |-> <<>>,
          error |-> <<"Invalid issuer URL format: ">> \o issuer]
  ELSE IF url.protocol # "https:" /\ url.protocol # "http:"
    THEN [ok |-> FALSE, uri |-> <<>>,
          error |-> <<"Invalid issuer protocol: ", url.protocol,
                      ". Must be http: or https:">>]
  ELSE
    LET slashed == IF endsWithSlash(url.pathname) THEN url.pathname
                   ELSE url.pathname \o <<"/">>
    IN [ok |-> TRUE, error |-> <<>>,
        uri |-> SerializeUrl([url EXCEPT !.pathname =
                  slashed \o <<".well-known/jwks.json">>])]

\* issuer.replace(/\/$/, ''): one trailing slash of the text is removed
stripTrailingSlash(text) ==
  IF text # <<>> /\ text[Len(text)] = "/" THEN SubSeq(text, 1, Len(text) - 1)
  ELSE text

\* .replace('https://', ''): the first 'https://' of the text is removed,
\* as written (lower case)
removeHttps(text) ==
  IF \E i \in 1..(Len(text) - 1) : text[i] = "https:" /\ text[i + 1] = "//"
    THEN LET i == CHOOSE i \in 1..(Len(text) - 1) :
                    /\ text[i] = "https:" /\ text[i + 1] = "//"
                    /\ \A j \in 1..(i - 1) : ~(text[j] = "https:" /\ text[j + 1] = "//")
         IN SubSeq(text, 1, i - 1) \o SubSeq(text, i + 2, Len(text))
  ELSE text

\* the jwksUri the JWKS client is created with:
\* `https://${issuer.replace(/\/$/, '').replace('https://', '')}/.well-known/jwks.json`
jwksUri(issuer) ==
  <<"https:", "//">> \o removeHttps(stripTrailingSlash(issuer))
    \o <<"/", ".well-known/jwks.json">>

\* process.env: a variable is unset (or empty), or holds a text. A text read
\* as a number is represented by what parseInt makes of it: an integer, or
\* NaN; the secret is represented by its length, the list of origins by the
\* number of non-empty items in it.
EnvUnset == [kind |-> "unset", n |-> 0]
EnvNaN == [kind |-> "nan", n |-> 0]
EnvInt(n) == [kind |-> "int", n |-> n]

\* an environment with the required variables set and nothing else
DefaultEnv ==
  [JWT_SECRET |-> EnvInt(32), DEEPGRAM_API_KEY |-> TRUE, PORT |-> EnvUnset,
   JWT_ISSUER |-> <<>>, JWT_ALGORITHM |-> "", JWT_VERIFY_ALGORITHMS |-> <<>>,
   JWKS_CACHE_MAX_ENTRIES |-> EnvUnset, JWKS_CACHE_MAX_AGE_MS |-> EnvUnset,
   JWKS_REQUEST_TIMEOUT_MS |-> EnvUnset,
   DEEPGRAM_TOKEN_TTL_MINUTES |-> EnvUnset, ALLOWED_ORIGINS |-> EnvUnset]

\* values around the limits validateConfig sets
EnvValues(name) ==
  IF name = "JWT_SECRET" THEN {EnvUnset, EnvInt(31), EnvInt(32)}
  ELSE IF name = "PORT" THEN {EnvNaN, EnvInt(0), EnvInt(1), EnvInt(65535), EnvInt(65536)}
  ELSE IF name = "ALLOWED_ORIGINS" THEN {EnvInt(0), EnvInt(2)}
  ELSE IF name = "DEEPGRAM_TOKEN_TTL_MINUTES"
    THEN {EnvInt(0), EnvInt(1), EnvInt(1440), EnvInt(1441)}
  ELSE IF name = "JWKS_CACHE_MAX_ENTRIES"
    THEN {EnvUnset, EnvNaN, EnvInt(0), EnvInt(1), EnvInt(100), EnvInt(101)}
  ELSE IF name = "JWKS_CACHE_MAX_AGE_MS"
    THEN {EnvUnset, EnvNaN, EnvInt(59999), EnvInt(60000), EnvInt(3600000),
          EnvInt(3600001)}
  ELSE {EnvUnset, EnvNaN, EnvInt(4999), EnvInt(5000), EnvInt(60000), EnvInt(60001)}

\* The environments explored: every issuer text, every combination of the
\* three JWKS settings, and the other validated variables one at a time
Envs ==
  {[DefaultEnv EXCEPT !.JWT_ISSUER = text] : text \in IssuerTexts}
  \cup {[DefaultEnv EXCEPT !.JWKS_CACHE_MAX_ENTRIES = e,
                           !.JWKS_CACHE_MAX_AGE_MS = a,
                           !.JWKS_REQUEST_TIMEOUT_MS = t] :
          e \in EnvValues("JWKS_CACHE_MAX_ENTRIES"),
          a \in EnvValues("JWKS_CACHE_MAX_AGE_MS"),
          t \in EnvValues("JWKS_REQUEST_TIMEOUT_MS")}
  \cup UNION {{[DefaultEnv EXCEPT ![name] = v] : v \in EnvValues(name)} :
               name \in {"JWT_SECRET", "PORT", "ALLOWED_ORIGINS",
                         "DEEPGRAM_TOKEN_TTL_MINUTES"}}
  \cup {[DefaultEnv EXCEPT !.DEEPGRAM_API_KEY = FALSE],
         [DefaultEnv EXCEPT !.JWT_ALGORITHM = "HS256"],
         [DefaultEnv EXCEPT !.JWT_ALGORITHM = "none"],
         [DefaultEnv EXCEPT !.JWT_VERIFY_ALGORITHMS = <<{"RS256"}>>],
         [DefaultEnv EXCEPT !.JWT_VERIFY_ALGORITHMS = <<{"RS256", "none"}>>]}

\* getRequiredEnvVar / parseIntEnvVar: the error thrown for a variable, if any
EnvError(env, name) ==
  IF name \in {"JWT_SECRET"} /\ env[name].kind = "unset"
    THEN <<"Missing required environment variable: ", name>>
  ELSE IF name = "DEEPGRAM_API_KEY"
    THEN IF env[name] THEN <<>>
         ELSE <<"Missing required environment variable: ", name>>
  ELSE IF env[name].kind = "nan"
    THEN <<"Environment variable ", name, " must be a valid number">>
  ELSE <<>>

\* parseIntEnvVar(name, defaultValue)
parseIntEnvVar(value, defaultValue) ==
  IF value.kind = "unset" THEN defaultValue ELSE value.n

\* parseArrayEnvVar(name, defaultValue), as the number of items it returns
parseArrayEnvVar(value, defaultValue) ==
  IF value.kind = "unset" THEN defaultValue ELSE value.n

\* the variables read while the config object is built, in source order
EnvReadOrder ==
  <<"PORT", "JWT_SECRET", "JWKS_CACHE_MAX_ENTRIES", "JWKS_CACHE_MAX_AGE_MS",
    "JWKS_REQUEST_TIMEOUT_MS", "DEEPGRAM_API_KEY", "DEEPGRAM_TOKEN_TTL_MINUTES">>

\* the first error thrown while the config object is built, <<>> for none
ReadError(env) ==
  LET failing == SelectSeq(EnvReadOrder, LAMBDA name : EnvError(env, name) # <<>>)
  IN IF failing = <<>> THEN <<>> ELSE EnvError(env, failing[1])

\* export const config = {...}: the values read, with their defaults
ConfigOf(env) ==
  [port |-> parseIntEnvVar(env.PORT, 3001),
   jwtSecretLength |-> env.JWT_SECRET.n,
   jwtIssuer |-> IF env.JWT_ISSUER = <<>> THEN <<jwtIssuer>> ELSE env.JWT_ISSUER,
   jwtAlgorithm |-> IF env.JWT_ALGORITHM = "" THEN jwtAlgorithm ELSE env.JWT_ALGORITHM,
   jwtVerifyAlgorithms |-> IF env.JWT_VERIFY_ALGORITHMS = <<>> THEN jwtVerifyAlgorithms
                           ELSE env.JWT_VERIFY_ALGORITHMS[1],
   jwksCacheMaxEntries |-> parseIntEnvVar(env.JWKS_CACHE_MAX_ENTRIES, 5),
   jwksCacheMaxAgeMs |-> parseIntEnvVar(env.JWKS_CACHE_MAX_AGE_MS, 600000),
   jwksRequestTimeoutMs |-> parseIntEnvVar(env.JWKS_REQUEST_TIMEOUT_MS, 30000),
   deepgramTokenTtlMinutes |-> parseIntEnvVar(env.DEEPGRAM_TOKEN_TTL_MINUTES, 15),
   allowedOrigins |-> parseArrayEnvVar(env.ALLOWED_ORIGINS, 1)]

validAlgorithms ==
  {"HS256", "HS384", "HS512", "RS256", "RS384", "RS512", "ES256", "ES384", "ES512"}

\* validateConfig without the check of jwksRequestTimeoutMs
validateConfigNoTimeoutCheck(c) ==
  IF c.jwtSecretLength < 32
    THEN <<"JWT_SECRET must be at least 32 characters long">>
  ELSE IF c.port < 1 \/ c.port > 65535
    THEN <<"PORT must be between 1 and 65535">>
  ELSE IF c.allowedOrigins = 0
    THEN <<"At least one allowed origin must be specified">>
  ELSE IF c.deepgramTokenTtlMinutes < 1 \/ c.deepgramTokenTtlMinutes > 1440
    THEN <<"DEEPGRAM_TOKEN_TTL_MINUTES must be between 1 and 1440 minutes (24 hours)">>
  ELSE IF c.jwtAlgorithm \notin validAlgorithms
    THEN <<"JWT_ALGORITHM must be one of: ">>
  ELSE IF c.jwtVerifyAlgorithms \ validAlgorithms # {}
    THEN <<"JWT_VERIFY_ALGORITHMS contains invalid algorithms: ">>
  ELSE IF c.jwksCacheMaxEntries < 1 \/ c.jwksCacheMaxEntries > 100
    THEN <<"JWKS_CACHE_MAX_ENTRIES must be between 1 and 100">>
  ELSE IF c.jwksCacheMaxAgeMs < 60000 \/ c.jwksCacheMaxAgeMs > 3600000
    THEN <<"JWKS_CACHE_MAX_AGE_MS must be between 60000ms (1 minute) and 3600000ms (1 hour)">>
  ELSE <<>>

\* validateConfig(config): the error thrown, <<>> when the configuration
\* is accepted; the checks in the order they are made
validateConfig(c) ==
  IF c.jwtSecretLength < 32
    THEN <<"JWT_SECRET must be at least 32 characters long">>
  ELSE IF c.port < 1 \/ c.port > 65535
    THEN <<"PORT must be between 1 and 65535">>
  ELSE IF c.allowedOrigins = 0
    THEN <<"At least one allowed origin must be specified">>
  ELSE IF c.deepgramTokenTtlMinutes < 1 \/ c.deepgramTokenTtlMinutes > 1440
    THEN <<"DEEPGRAM_TOKEN_TTL_MINUTES must be between 1 and 1440 minutes (24 hours)">>
  ELSE IF c.jwtAlgorithm \notin validAlgorithms
    THEN <<"JWT_ALGORITHM must be one of: ">>
  ELSE IF c.jwtVerifyAlgorithms \ validAlgorithms # {}
    THEN <<"JWT_VERIFY_ALGORITHMS contains invalid algorithms: ">>
  ELSE IF c.jwksCacheMaxEntries < 1 \/ c.jwksCacheMaxEntries > 100
    THEN <<"JWKS_CACHE_MAX_ENTRIES must be between 1 and 100">>
  ELSE IF c.jwksCacheMaxAgeMs < 60000 \/ c.jwksCacheMaxAgeMs > 3600000
    THEN <<"JWKS_CACHE_MAX_AGE_MS must be between 60000ms (1 minute) and 3600000ms (1 hour)">>
  ELSE IF c.jwksRequestTimeoutMs < 5000 \/ c.jwksRequestTimeoutMs > 60000
    THEN <<"JWKS_REQUEST_TIMEOUT_MS must be between 5000ms (5 seconds) and 60000ms (1 minute)">>
  ELSE <<>>

\* the process before the configuration module is loaded
BootStart(env) ==
  [env |-> env, status |-> "start", error |-> <<>>, client |-> <<>>,
   constructed |-> <<>>, fetched |-> <<>>]

\* ------------------------------------------------------- the health route
\* const CACHE_TTL_MS = 60 * 1000
CACHE_TTL_MS == 60000

\* how many times the clock of the health route moves
MaxHealthTicks == 3

\* the amounts of time, in ms, that pass between two events
HealthSteps == {1, 59999}

\* hasRequiredConfig: the API key and the secret are required at module load
hasRequiredConfig ==
  DefaultEnv.DEEPGRAM_API_KEY /\ DefaultEnv.JWT_SECRET.kind # "unset"

\* a cache test that takes an entry of exactly CACHE_TTL_MS for valid
CacheValidInclusive(c, t) == c # <<>> /\ (t - c[1].timestamp) <= CACHE_TTL_MS

\* deepgramHealthCache && (now - deepgramHealthCache.timestamp) < CACHE_TTL_MS
CacheValid(c, t) == c # <<>> /\ (t - c[1].timestamp) < CACHE_TTL_MS

\* one GET /api/health: startedAt is the now of checkDeepgramConnectivity,
\* probed the calls of checkConnectivity it made, seen the cache it found,
\* reported the checks.deepgram it answered with, status its HTTP status
IdleHealthCall ==
  [pc |-> "idle", startedAt |-> 0, probed |-> 0, seen |-> <<>>,
   reported |-> <<>>, status |-> 0]

\* res.status(httpStatus).json({... checks: {config, deepgram}})
HealthResponse(call, deepgramConnected) ==
  [call EXCEPT !.pc = "done", !.reported = <<deepgramConnected>>,
               !.status = IF hasRequiredConfig /\ deepgramConnected
                            THEN 200 ELSE 503]

\* ---------------------------------------------------------------- state
IdleCall ==
  [pc |-> "idle", hdr |-> NoHeader, res |-> NoResponse, responses |-> 0,
   user |-> <<>>, nextCalls |-> 0, verifyCalled |-> FALSE, verified |-> FALSE,
   getKeyCalled |-> FALSE, jwksRequests |-> 0, keyFrom |-> "none",
   at |-> 0, keyAt |-> 0, keyAge |-> 0, hadStale |-> FALSE,
   stages |-> <<>>, err |-> <<>>, rawErr |-> <<>>, keyErr |-> <<>>,
   answer |-> "none", fetchAt |-> 0, evicted |-> <<>>, waited |-> FALSE,
   cache0 |-> <<>>, allowed0 |-> TRUE, inflight0 |-> FALSE,
   route |-> "auth", routeStatus |-> 0, generateCalls |-> 0, userId |-> <<>>]

\* The call starting now, with the resolver's state as it finds it (kept
\* where calls are compared): the cache, whether the rate limiter has
\* requests left in its interval
StartCall(h) ==
  LET rq == [IdleCall EXCEPT !.hdr = h, !.at = now, !.keyAt = now] IN
  IF mode # "det" THEN rq
  ELSE [rq EXCEPT !.cache0 = cache,
                  !.allowed0 = RateLimitAllows(TokensThisInterval)]

OffCall == [IdleCall EXCEPT !.pc = "off"]

Init ==
  /\ now = 0
  /\ cache = <<>>
  /\ loading = {}
  /\ used = 0
  /\ issued = {}
  /\ limiter = [clock |-> 0, curIntervalStart |-> 0, content |-> BucketSize,
                sent |-> <<>>]
  /\ \/ /\ mode \in {"seq", "lru", "rate", "route", "config"}
        /\ req = [r \in Slots |-> IF r = "r1" THEN IdleCall ELSE OffCall]
     \/ /\ mode \in {"conc", "det", "health"}
        /\ req = [r \in Slots |-> IdleCall]
  /\ health = [clock |-> 0, ticks |-> 0, cache |-> <<>>, probes |-> 0,
               calls |-> [r \in Slots |-> IdleHealthCall]]
  /\ IF mode = "config" THEN boot \in {BootStart(env) : env \in Envs}
     ELSE boot = BootStart(DefaultEnv)

\* --------------------------------------------------------------- actions
\* The token of a call that got past the gate
TokenOf(rq) == rq.hdr.rest[1]

\* authenticateToken(req, res, next) up to its first suspension point: the
\* gate, jwt.verify's decoding, getKey and client.getSigningKey
\* (cache lookup, rate limiter, issue of the JWKS request).
authenticateToken(r, h) ==
  /\ req[r].pc \in {"idle", "done"}
  /\ h \in Pool(mode) \cup IssuedHeaders
  /\ mode = "rate" => limiter.clock < MaxDrips
  /\ LET rq0 == StartCall(h)
         token == ExtractToken(h)
     IN
     IF TokenMissing(token)
       THEN \* 401, the verifier is not called
         /\ req' = [req EXCEPT ![r] = [rq0 EXCEPT !.pc = "done",
                                         !.res = MissingTokenResponse,
                                         !.responses = 1]]
         /\ UNCHANGED <<cache, loading, used, limiter>>
     ELSE
       LET rq1 == [rq0 EXCEPT !.verifyCalled = TRUE, !.stages = <<"Received">>] IN
       IF VerifyDecode(token.str) # <<>>
         THEN
           /\ req' = [req EXCEPT ![r] =
                        VerifyCallback(rq1, VerifyDecode(token.str), MalformedToken)]
           /\ UNCHANGED <<cache, loading, used, limiter>>
       ELSE
         LET tok == token.str[1]
             rq2 == [rq1 EXCEPT !.getKeyCalled = TRUE,
                                !.stages = @ \o <<"HeaderParsed">>,
                                !.hadStale = HasStale(cache, tok.kid, now),
                                !.inflight0 = mode = "det" /\ tok.kid \in loading]
         IN
         IF getKey(tok) # <<>>
           THEN
             /\ req' = [req EXCEPT ![r] =
                          VerifyCallback([rq2 EXCEPT !.keyErr = getKey(tok)],
                                         KeyCallbackError(getKey(tok)), tok)]
             /\ UNCHANGED <<cache, loading, used, limiter>>
         ELSE IF CacheHit(cache, tok.kid, now)
           THEN \* served from the cache: verification completes at once
             /\ cache' = CacheAfterGet(cache, tok.kid, now)
             /\ req' = [req EXCEPT ![r] =
                          VerifyCallback(
                            [rq2 EXCEPT !.keyFrom = "cache",
                               !.keyAge = now - cache[CacheIndex(cache, tok.kid)].at,
                               !.stages = @ \o <<"KeyResolved">>
                                  \o StagesWithKey(tok, clockTimestamp(rq2, now))],
                            VerifyWithKey(tok, clockTimestamp(rq2, now)), tok)]
             /\ UNCHANGED <<loading, used, limiter>>
         ELSE IF tok.kid \in loading
           THEN \* a request for this kid is in flight: wait for its answer
             /\ cache' = CacheAfterGet(cache, tok.kid, now)
             /\ req' = [req EXCEPT ![r] = [rq2 EXCEPT !.pc = "waiting"]]
             /\ UNCHANGED <<loading, used, limiter>>
         ELSE IF ~RateLimitAllows(TokensThisInterval)
           THEN \* the interval's requests are used up: refused at once
             /\ cache' = CacheAfterGet(cache, tok.kid, now)
             /\ req' = [req EXCEPT ![r] =
                          VerifyCallback(
                            [rq2 EXCEPT !.rawErr = RateLimitError,
                                        !.keyErr = getKeyCallback(RateLimitError)],
                            KeyCallbackError(getKeyCallback(RateLimitError)), tok)]
             /\ used' = TokensThisInterval
             /\ limiter' = LimiterSeen
             /\ UNCHANGED loading
         ELSE IF limiter.content < 1
           THEN \* the bucket is empty: the call comes back when it has dripped
             /\ cache' = CacheAfterGet(cache, tok.kid, now)
             /\ used' = TokensThisInterval
             /\ limiter' = LimiterSeen
             /\ loading' = loading \cup {tok.kid}
             /\ req' = [req EXCEPT ![r] = [rq2 EXCEPT !.pc = "throttled",
                                                     !.waited = TRUE]]
         ELSE \* cache miss: one JWKS request goes out
           /\ cache' = CacheAfterGet(cache, tok.kid, now)
           /\ used' = TokensThisInterval + 1
           /\ limiter' = LimiterTaken
           /\ loading' = loading \cup {tok.kid}
           /\ req' = [req EXCEPT ![r] = [rq2 EXCEPT !.pc = "fetching",
                                                   !.fetchAt = now,
                                                   !.jwksRequests = @ + 1]]
  /\ UNCHANGED <<now, mode, issued, boot, health>>

\* a client that sends the request again when it failed
CompleteRetrying(rq, outcome, t) ==
  IF outcome # "found" /\ rq.pc = "fetching"
    THEN [rq EXCEPT !.jwksRequests = @ + 1, !.fetchAt = t]
  ELSE [rq EXCEPT !.pc = "done"]

\* The call rq, waiting for the key of its token's kid, gets the outcome of
\* the JWKS request at time t: an error goes through getKey to jwt.verify's
\* callback, a key lets jwt.verify check the signature and the claim set.
\* A failed request is not sent again.
Complete(rq, outcome, t) ==
  IF outcome # "found"
    THEN VerifyCallback(
           [rq EXCEPT !.keyAt = t, !.answer = outcome,
                      !.rawErr = FetchError(outcome),
                      !.keyErr = getKeyCallback(FetchError(outcome))],
           KeyCallbackError(getKeyCallback(FetchError(outcome))),
           TokenOf(rq))
  ELSE VerifyCallback(
         [rq EXCEPT !.keyFrom = "fetch", !.keyAt = t, !.answer = outcome,
                    !.stages = @ \o <<"KeyResolved">>
                       \o StagesWithKey(TokenOf(rq), clockTimestamp(rq, t))],
         VerifyWithKey(TokenOf(rq), clockTimestamp(rq, t)),
         TokenOf(rq))

\* a client that answers only the call that sent the request
DeliverLoaderOnly(kid, outcome) ==
  /\ kid \in loading
  /\ \E r \in Slots : req[r].pc = "fetching" /\ TokenOf(req[r]).kid = kid
  /\ loading' = loading \ {kid}
  /\ cache' = IF outcome = "found" THEN CacheSet(cache, kid, now) ELSE cache
  /\ req' = [r \in Slots |->
       IF req[r].pc = "fetching" /\ TokenOf(req[r]).kid = kid
         THEN Complete(req[r], outcome, now)
         ELSE req[r]]
  /\ UNCHANGED <<now, used, mode, limiter, issued, boot, health>>

\* a client whose shared answer carries the verification result of the call
\* that sent the request: the calls queued behind it get that call's claims
\* and response
DeliverSharedResult(kid, outcome) ==
  /\ kid \in loading
  /\ \E r \in Slots : req[r].pc = "fetching" /\ TokenOf(req[r]).kid = kid
  /\ loading' = loading \ {kid}
  /\ cache' = IF outcome = "found" THEN CacheSet(cache, kid, now) ELSE cache
  /\ LET loader == CHOOSE r \in Slots :
                     req[r].pc = "fetching" /\ TokenOf(req[r]).kid = kid
         first == Complete(req[loader], outcome, now)
     IN req' = [r \in Slots |->
          IF req[r].pc \in {"fetching", "waiting"} /\ TokenOf(req[r]).kid = kid
            THEN [Complete(req[r], outcome, now) EXCEPT
                    !.user = first.user, !.res = first.res]
            ELSE req[r]]
  /\ UNCHANGED <<now, used, mode, limiter, issued, boot, health>>

\* The JWKS request for kid ends with outcome: a found key is stored, and
\* the verification of every call waiting for this kid completes.
Deliver(kid, outcome) ==
  /\ kid \in loading
  /\ \E r \in Slots : req[r].pc = "fetching" /\ TokenOf(req[r]).kid = kid
  /\ loading' = loading \ {kid}
  /\ cache' = IF outcome = "found" THEN CacheSet(cache, kid, now) ELSE cache
  /\ req' = [r \in Slots |->
       IF req[r].pc \in {"fetching", "waiting"} /\ TokenOf(req[r]).kid = kid
         THEN [Complete(req[r], outcome, now) EXCEPT
                 !.evicted = IF outcome = "found" /\ req[r].pc = "fetching"
                               THEN Evicted(cache, kid) ELSE <<>>]
         ELSE req[r]]
  /\ UNCHANGED <<now, used, mode, limiter, issued, boot, health>>

\* The answer to the JWKS request for kid arrives (or the request fails);
\* the explorations with the larger state spaces take fewer of the failures
JwksResponse(kid, outcome) ==
  /\ outcome \in FetchOutcomes
  /\ mode = "rate" => outcome = "notfound"
  /\ mode \in {"conc", "det"} => outcome # "error"
  /\ Deliver(kid, outcome)

\* a client without request timeout
JwksTimeoutNever(kid) == FALSE

\* timeout: config.jwksRequestTimeoutMs: the request for kid has had no answer
\* for the configured time and is cancelled. The timeout is shorter than a
\* minute, so it can elapse at any clock value the request is in flight.
JwksTimeout(kid) ==
  /\ kid \in loading
  /\ Deliver(kid, "timeout")

\* no request in flight has been so for longer than the request timeout
InFlightWithinTimeout(t) ==
  \A r \in Slots : req[r].pc = "fetching" => t - req[r].fetchAt < jwksRequestTimeout

\* The calls that found the bucket empty come back when the time a token
\* takes to drip has passed, in the order of the slots while tokens are left:
\* does the call in slot r get a token when the bucket holds content tokens
Retries(r, content) ==
  /\ req[r].pc = "throttled"
  /\ content >= Cardinality({q \in Slots : /\ req[q].pc = "throttled"
                                           /\ (q = r \/ q = "r1")})

\* Time passes: a minute, or one drip period where the limiter's clock is
\* followed. The bucket drips and an interval that has lasted a minute is
\* over; a call that waited for the bucket takes its token, is counted in
\* tokensThisInterval, and its JWKS request goes out.
Tick ==
  /\ IF mode = "rate" THEN limiter.clock < MaxDrips ELSE now < MaxClock
  /\ InFlightWithinTimeout(now)
  /\ LET clock == limiter.clock + DripStep
         over == \/ limiter.curIntervalStart = Expired
                 \/ clock - limiter.curIntervalStart >= DripsPerMinute
         content == Min(BucketSize, limiter.content + DripStep)
         retried == {r \in Slots : Retries(r, content)}
         dripped == [limiter EXCEPT
                       !.clock = clock,
                       !.curIntervalStart = IF over THEN Expired ELSE @,
                       !.content = content - Cardinality(retried)]
     IN /\ now' = clock \div DripsPerMinute
        /\ used' = (IF over THEN 0 ELSE used) + Cardinality(retried)
        /\ limiter' = [dripped EXCEPT
                         !.sent = IF retried = {} THEN @
                                  ELSE SentAt(@, clock)]
        /\ req' = [r \in Slots |->
             IF r \in retried
               THEN [req[r] EXCEPT !.pc = "fetching",
                                   !.fetchAt = clock \div DripsPerMinute,
                                   !.jwksRequests = @ + 1]
               ELSE req[r]]
  /\ UNCHANGED <<cache, loading, mode, issued, boot, health>>

\* generateToken is called with the payload of a user and its token kept
GenerateToken(sub) ==
  /\ mode = "route"
  /\ issued' = issued \cup {generateToken([sub |-> sub], now)}
  /\ UNCHANGED <<now, cache, loading, used, req, mode, limiter, boot, health>>

\* a chain without the gate: the body is validated and the handler run
\* whatever authenticateToken did
ChainContinuesUngated(rq) == rq.pc = "done"

\* router.post('/deepgram', authenticateToken, validateBody(...), handler):
\* the router runs the next function of the chain when the one before it
\* called next() without an error
ChainContinues(rq) == rq.pc = "done" /\ rq.nextCalls = 1

\* validateBody(deepgramTokenRequestSchema): a body the schema accepts lets
\* the chain go on; one it rejects goes to the error handler as a 400
validateBody(r, bodyOk) ==
  /\ mode = "route"
  /\ ChainContinues(req[r])
  /\ req[r].route = "auth"
  /\ req' = [req EXCEPT ![r] =
       IF bodyOk THEN [@ EXCEPT !.route = "handler"]
       ELSE [@ EXCEPT !.route = "ended", !.routeStatus = 400]]
  /\ UNCHANGED <<now, cache, loading, used, mode, limiter, issued, boot, health>>

\* The handler of POST /api/token/deepgram: the user id is req.user?.sub, a
\* missing one is an error, otherwise generateProjectToken(userId, sessionId)
\* is called and its token sent, or its failure passed to the error handler.
deepgramTokenHandler(r, granted) ==
  /\ mode = "route"
  /\ req[r].route = "handler"
  /\ LET userId == IF req[r].user = <<>> THEN "" ELSE req[r].user[1].sub IN
     req' = [req EXCEPT ![r] =
       IF userId = ""
         THEN [@ EXCEPT !.route = "ended", !.routeStatus = 400]
       ELSE [@ EXCEPT !.route = "ended", !.generateCalls = @ + 1,
                      !.userId = <<userId>>,
                      !.routeStatus = IF granted THEN 200 ELSE 500]]
  /\ UNCHANGED <<now, cache, loading, used, mode, limiter, issued, boot, health>>

\* The configuration module is loaded: the config object is built from the
\* environment and validateConfig(config) called; an error thrown there ends
\* the load.
LoadModule ==
  /\ mode = "config"
  /\ boot.status = "start"
  /\ LET error == IF ReadError(boot.env) # <<>> THEN ReadError(boot.env)
                  ELSE validateConfig(ConfigOf(boot.env))
     IN boot' = [boot EXCEPT !.status = IF error = <<>> THEN "loaded" ELSE "failed",
                             !.error = error]
  /\ UNCHANGED <<now, cache, loading, used, req, mode, limiter, issued, health>>

\* The auth middleware module is loaded, once the configuration is: the JWKS
\* client is created with its jwksUri
CreateClient ==
  /\ mode = "config"
  /\ boot.status = "loaded"
  /\ boot.client = <<>>
  /\ boot' = [boot EXCEPT !.client = jwksUri(ConfigOf(boot.env).jwtIssuer)]
  /\ UNCHANGED <<now, cache, loading, used, req, mode, limiter, issued, health>>

\* constructJwksUri is applied to the issuer text of the environment
ConstructJwksUri ==
  /\ mode = "config"
  /\ boot.constructed = <<>>
  /\ boot' = [boot EXCEPT !.constructed = <<constructJwksUri(boot.env.JWT_ISSUER)>>]
  /\ UNCHANGED <<now, cache, loading, used, req, mode, limiter, issued, health>>

\* A request makes the JWKS client fetch the key set: the request goes to
\* the jwksUri the client was created with
FetchKeys ==
  /\ mode = "config"
  /\ boot.client # <<>>
  /\ boot.fetched = <<>>
  /\ boot' = [boot EXCEPT !.fetched = boot.client]
  /\ UNCHANGED <<now, cache, loading, used, req, mode, limiter, issued, health>>

\* GET /api/health up to the await in checkDeepgramConnectivity: a cached
\* value that is still valid is the answer; otherwise checkConnectivity is
\* called and the request waits for it.
checkDeepgramConnectivity(r) ==
  /\ mode = "health"
  /\ health.calls[r].pc \in {"idle", "done"}
  /\ LET call == [IdleHealthCall EXCEPT !.startedAt = health.clock,
                                        !.seen = health.cache]
     IN
     IF ~hasRequiredConfig
       THEN health' = [health EXCEPT !.calls[r] = HealthResponse(call, FALSE)]
     ELSE IF CacheValid(health.cache, health.clock)
       THEN health' = [health EXCEPT !.calls[r] =
                         HealthResponse(call, health.cache[1].connected)]
     ELSE health' = [health EXCEPT
                       !.probes = @ + 1,
                       !.calls[r] = [call EXCEPT !.pc = "probing", !.probed = 1]]
  /\ UNCHANGED <<now, cache, loading, used, req, mode, limiter, issued, boot>>

\* checkConnectivity resolves (it never rejects): the cache is replaced by
\* the result, stamped with the time the request read at its start, and the
\* request answered with the result.
ConnectivityResult(r, connected) ==
  /\ mode = "health"
  /\ health.calls[r].pc = "probing"
  /\ health' = [health EXCEPT
                  !.cache = <<[connected |-> connected,
                               timestamp |-> health.calls[r].startedAt]>>,
                  !.calls[r] = HealthResponse(@, connected)]
  /\ UNCHANGED <<now, cache, loading, used, req, mode, limiter, issued, boot>>

\* time passes on the clock of the health route
HealthTick(ms) ==
  /\ mode = "health"
  /\ health.ticks < MaxHealthTicks
  /\ health' = [health EXCEPT !.clock = @ + ms, !.ticks = @ + 1]
  /\ UNCHANGED <<now, cache, loading, used, req, mode, limiter, issued, boot>>

Next ==
  \/ \E r \in Slots, h \in Pool(mode) : authenticateToken(r, h)
  \/ \E kid \in LruKids, outcome \in FetchOutcomes : JwksResponse(kid, outcome)
  \/ \E kid \in LruKids : JwksTimeout(kid)
  \/ Tick

Spec == Init /\ [][Next]_vars

\* The explorations taken one at a time
InitSeq == Init /\ mode = "seq"
SpecSeq == InitSeq /\ [][Next]_vars
InitConc == Init /\ mode = "conc"
SpecConc == InitConc /\ [][Next]_vars
InitLru == Init /\ mode = "lru"
SpecLru == InitLru /\ [][Next]_vars
InitRate == Init /\ mode = "rate"
SpecRate == InitRate /\ [][Next]_vars
InitDet == Init /\ mode = "det"
SpecDet == InitDet /\ [][Next]_vars

\* The token route: tokens are generated, requests go through the chain
\* authenticateToken, validateBody, handler
NextRoute ==
  \/ GenerateToken("u1")
  \/ \E r \in Slots, h \in RouteHeaders \cup IssuedHeaders : authenticateToken(r, h)
  \/ \E kid \in Kids, outcome \in FetchOutcomes : JwksResponse(kid, outcome)
  \/ \E kid \in Kids : JwksTimeout(kid)
  \/ Tick
  \/ \E r \in Slots, bodyOk \in BOOLEAN : validateBody(r, bodyOk)
  \/ \E r \in Slots, granted \in BOOLEAN : deepgramTokenHandler(r, granted)

InitRoute == Init /\ mode = "route"
SpecRoute == InitRoute /\ [][NextRoute]_vars

\* The start of the process
NextConfig ==
  \/ LoadModule
  \/ CreateClient
  \/ ConstructJwksUri
  \/ FetchKeys

InitConfig == Init /\ mode = "config"
SpecConfig == InitConfig /\ [][NextConfig]_vars

\* The health route
NextHealth ==
  \/ \E r \in Slots : checkDeepgramConnectivity(r)
  \/ \E r \in Slots, connected \in BOOLEAN : ConnectivityResult(r, connected)
  \/ \E ms \in HealthSteps : HealthTick(ms)

InitHealth == Init /\ mode = "health"
SpecHealth == InitHealth /\ [][NextHealth]_vars

\* Time passes and the request timeout of the JWKS client fires; the JWKS
\* endpoint may never answer.
LiveSpec ==
  /\ SpecRate
  /\ WF_vars(Tick)
  /\ \A kid \in LruKids : WF_vars(JwksTimeout(kid))

LiveSpecConc ==
  /\ SpecConc
  /\ WF_vars(Tick)
  /\ \A kid \in LruKids : WF_vars(JwksTimeout(kid))

TypeOK ==
  /\ now \in 0..MaxClock
  /\ used \in 0..jwksRequestsPerMinute
  /\ loading \subseteq LruKids
  /\ Len(cache) <= cacheMaxEntries
  /\ mode \in {"seq", "conc", "lru", "rate", "det", "route", "config", "health"}
  /\ health.ticks \in 0..MaxHealthTicks
  /\ Len(health.cache) <= 1
  /\ boot.env \in Envs
  /\ boot.status \in {"start", "loaded", "failed"}
  /\ issued \subseteq {generateToken([sub |-> "u1"], t) : t \in 0..MaxClock}
  /\ limiter.content \in 0..BucketSize
  /\ limiter.clock \in 0..(DripsPerMinute * MaxClock + MaxDrips)

\* ======================================================================
\* Properties
\* ======================================================================
Prefix == "Token validation failed: "
Started(r) == req[r].pc \in {"idle", "done"} /\ req'[r] # req[r]
HasTok(rq) == rq.verifyCalled /\ rq.hdr.rest # <<>> /\ TokenOf(rq).formed
KeyResolved(rq) == rq.keyFrom \in {"cache", "fetch"}
FreshEntry(c, kid, t) ==
  \E i \in DOMAIN c : c[i].kid = kid /\ t - c[i].at <= jwksCacheMaxAge
StaleEntry(c, kid, t) ==
  \E i \in DOMAIN c : c[i].kid = kid /\ t - c[i].at > jwksCacheMaxAge

\* ---- C1
C1_Valid(rq) ==
  /\ rq.pc = "done" /\ HasTok(rq) /\ KeyResolved(rq)
  /\ TokenOf(rq).alg \in jwtVerifyAlgorithms /\ TokenOf(rq).alg = "RS256"
  /\ TokenOf(rq).sig = "good"
  /\ rq.at < TokenOf(rq).exp
  /\ TokenOf(rq).iss = jwtIssuer /\ TokenOf(rq).aud = jwtAudience
  /\ TokenOf(rq).sub # ""

\* C1: a well-formed bearer token signed with a key the resolver delivered,
\* declaring an accepted (asymmetric) algorithm, not expired, with matching
\* iss and aud and a sub, makes authenticateToken call next() once, send no
\* response and attach claims whose sub is the token's sub.
C1_ValidTokenAccepted ==
  \A r \in Slots :
    C1_Valid(req[r]) =>
      /\ req[r].nextCalls = 1
      /\ req[r].responses = 0
      /\ Len(req[r].user) = 1
      /\ req[r].user[1].sub = TokenOf(req[r]).sub

C1_Witness ==
  \E r \in Slots :
    /\ C1_Valid(req[r]) /\ req[r].keyFrom = "fetch"
    /\ req[r].nextCalls = 1 /\ req[r].user[1].sub = "u1"

\* ---- C2
\* C2: req.user is set only if the verifier reported success for the call's
\* own token (key resolved, signature and claim set passed) and the payload
\* has a non-empty sub; a verified payload without sub is answered 403 and
\* gets no claims.
C2_ClaimsOnlyAfterVerification ==
  \A r \in Slots :
    /\ req[r].user # <<>> =>
         /\ HasTok(req[r]) /\ req[r].verified /\ KeyResolved(req[r])
         /\ TokenOf(req[r]).sig = "good"
         /\ TokenOf(req[r]).alg \in jwtVerifyAlgorithms
         /\ req[r].at < TokenOf(req[r]).exp
         /\ TokenOf(req[r]).iss = jwtIssuer
         /\ TokenOf(req[r]).aud = jwtAudience
         /\ req[r].user[1].sub = TokenOf(req[r]).sub
         /\ req[r].user[1].sub # ""
    /\ (req[r].pc = "done" /\ req[r].verified /\ TokenOf(req[r]).sub = "") =>
         /\ req[r].res.status = 403
         /\ req[r].user = <<>>
         /\ req[r].nextCalls = 0

C2_Witness ==
  \E r \in Slots :
    /\ req[r].pc = "done" /\ req[r].verified /\ TokenOf(req[r]).sub = ""
    /\ req[r].res = ForbiddenResponse(MissingSubjectReason)

\* ---- C3
C3_NoToken(h) == h.form # "bearer" \/ h.rest = <<>>

\* C3: with the Authorization header absent, not starting with 'Bearer ', or
\* with nothing after 'Bearer ', the call answers 401 without the verifier
\* or any key resolution (cache, rate limiter and requests in flight
\* untouched), without next() and without req.user.
C3_MissingTokenIs401 ==
  /\ [](\A r \in Slots :
          (req[r].pc \notin {"idle", "off"} /\ C3_NoToken(req[r].hdr)) =>
            /\ req[r].pc = "done"
            /\ req[r].res.status = 401
            /\ req[r].responses = 1
            /\ ~req[r].verifyCalled /\ ~req[r].getKeyCalled
            /\ req[r].jwksRequests = 0
            /\ req[r].nextCalls = 0
            /\ req[r].user = <<>>)
  /\ [][\A r \in Slots :
          (Started(r) /\ C3_NoToken(req'[r].hdr)) =>
            UNCHANGED <<cache, loading, used, limiter>>]_vars

C3_Witness ==
  \E r \in Slots :
    /\ req[r].pc = "done" /\ req[r].hdr = [form |-> "bearer", rest |-> <<>>]
    /\ req[r].res = MissingTokenResponse

\* ---- C4
C4_VerifierFails(rq) ==
  /\ rq.pc = "done" /\ rq.verifyCalled
  /\ \/ ~TokenOf(rq).formed
     \/ TokenOf(rq).alg \notin jwtVerifyAlgorithms
     \/ TokenOf(rq).kid = NoKid
     \/ ~KeyResolved(rq)
     \/ TokenOf(rq).sig # "good"
     \/ rq.at >= TokenOf(rq).exp
     \/ TokenOf(rq).iss # jwtIssuer
     \/ TokenOf(rq).aud # jwtAudience

C5_AlgorithmGateBeforeKey ==
  \A r \in Slots :
    (HasTok(req[r]) /\ TokenOf(req[r]).alg \notin jwtVerifyAlgorithms) =>
      /\ ~req[r].getKeyCalled
      /\ req[r].jwksRequests = 0

\* ---- C6
C6_ExpiredWithKey(rq) ==
  /\ rq.pc = "done" /\ HasTok(rq) /\ KeyResolved(rq)
  /\ TokenOf(rq).alg = "RS256"
  /\ rq.at > TokenOf(rq).exp

\* C6 (as claimed): a token whose exp is strictly in the past is reported as
\* expired whether or not its signature is valid.
C6_ExpiredWhateverSignature ==
  \A r \in Slots :
    C6_ExpiredWithKey(req[r]) =>
      req[r].res.message = <<Prefix, "jwt expired">>

\* C6 (amended): a token whose exp is strictly in the past and whose signature
\* verifies under the resolved key is rejected 403 as expired; with a bad
\* signature it is rejected 403 as an invalid signature, expired or not.
C6_ExpiredAfterSignature ==
  \A r \in Slots :
    /\ (C6_ExpiredWithKey(req[r]) /\ TokenOf(req[r]).sig = "good") =>
         req[r].res = ForbiddenResponse(<<"jwt expired">>)
    /\ (C6_ExpiredWithKey(req[r]) /\ TokenOf(req[r]).sig = "bad") =>
         req[r].res = ForbiddenResponse(<<"invalid signature">>)

C6_Witness ==
  \E r \in Slots :
    /\ C6_ExpiredWithKey(req[r]) /\ TokenOf(req[r]).sig = "good"
    /\ req[r].res.message = <<Prefix, "jwt expired">>

\* ---- C7
\* C7 (as claimed): a token declaring the accepted symmetric algorithm HS256
\* is verified with the configured secret: the key resolver is not invoked,
\* no kid is required and no JWKS request is made.
C7_SymmetricUsesSecret ==
  \A r \in Slots :
    (HasTok(req[r]) /\ TokenOf(req[r]).alg = "HS256"
       /\ "HS256" \in jwtVerifyAlgorithms) =>
      /\ ~req[r].getKeyCalled
      /\ req[r].jwksRequests = 0
      /\ req[r].pc = "done" =>
           req[r].res.message #
             <<Prefix, "error in secret or public key callback: ",
               "Missing kid in token header">>

\* ---- C8
C8_NoKid(rq) == HasTok(rq) /\ TokenOf(rq).kid = NoKid

C9_Resolves(rq) == HasTok(rq) /\ rq.getKeyCalled /\ TokenOf(rq).kid # NoKid

\* C9 (as claimed): two resolutions of the same kid made within the max-age
\* window of each other produce at most one JWKS request in total.
C9_AtMostOneFetch ==
  \A r1, r2 \in Slots :
    (/\ r1 # r2 /\ C9_Resolves(req[r1]) /\ C9_Resolves(req[r2])
     /\ TokenOf(req[r1]).kid = TokenOf(req[r2]).kid
     /\ req[r1].at <= req[r2].at
     /\ req[r2].at - req[r1].at <= jwksCacheMaxAge) =>
      req[r1].jwksRequests + req[r2].jwksRequests <= 1

\* C9 (amended): a resolution of a kid made while the cache holds an entry
\* for it that is within max-age is served from the cache and sends no JWKS
\* request.
C9_FreshEntryServedFromCache ==
  [][\A r \in Slots :
       (/\ Started(r) /\ C9_Resolves(req'[r])
        /\ FreshEntry(cache, TokenOf(req'[r]).kid, now)) =>
         /\ req'[r].jwksRequests = 0
         /\ req'[r].keyFrom = "cache"
         /\ req'[r].pc = "done"
         /\ UNCHANGED <<loading, used, limiter>>]_vars

C9_Witness ==
  \E r1, r2 \in Slots :
    /\ r1 # r2 /\ C9_Resolves(req[r1]) /\ C9_Resolves(req[r2])
    /\ TokenOf(req[r1]).kid = TokenOf(req[r2]).kid
    /\ req[r1].keyFrom = "fetch" /\ req[r1].jwksRequests = 1
    /\ req[r2].keyFrom = "cache" /\ req[r2].jwksRequests = 0
    /\ req[r2].at >= req[r1].keyAt
    /\ req[r2].at - req[r1].at <= jwksCacheMaxAge

\* ---- C10
C10_NeverServesStale ==
  \A r \in Slots : req[r].keyFrom = "cache" => req[r].keyAge <= jwksCacheMaxAge

C10_StaleAtCall(r) ==
  /\ Started(r) /\ C9_Resolves(req'[r])
  /\ StaleEntry(cache, TokenOf(req'[r]).kid, now)

\* C10 (as claimed): no cached entry older than max-age is ever returned, and
\* the first resolution of a kid whose entry has gone stale performs a fresh
\* fetch.
C10_StaleAlwaysRefetched ==
  /\ []C10_NeverServesStale
  /\ [][\A r \in Slots :
          C10_StaleAtCall(r) =>
            /\ req'[r].jwksRequests = 1
            /\ req'[r].pc = "fetching"]_vars

\* C10 (amended): no cached entry older than max-age is ever returned; the
\* first resolution of a kid whose entry has gone stale drops the entry and
\* sends a fresh JWKS request unless the per-minute ceiling is reached, in
\* which case it fails with 403 and sends none; a fetched key is stored as a
\* whole new entry stamped with the time of its arrival.
C10_StaleDroppedThenRefetched ==
  /\ []C10_NeverServesStale
  /\ [][\A r \in Slots :
          C10_StaleAtCall(r) =>
            /\ TokenOf(req'[r]).kid \notin CacheKids(cache')
            /\ req'[r].keyFrom = "none"
            /\ IF used < jwksRequestsPerMinute
                 THEN req'[r].jwksRequests = 1 /\ req'[r].pc = "fetching"
                      /\ used' = used + 1
                 ELSE req'[r].jwksRequests = 0 /\ req'[r].pc = "done"
                      /\ req'[r].res.status = 403 /\ used' = used]_vars
  /\ [][\A r \in Slots :
          (req[r].pc = "fetching" /\ req'[r].keyFrom = "fetch") =>
            /\ Len(cache') >= 1
            /\ cache'[Len(cache')] = [kid |-> TokenOf(req[r]).kid, at |-> now]
            /\ Cardinality({i \in DOMAIN cache' :
                              cache'[i].kid = TokenOf(req[r]).kid}) = 1]_vars

C10_Witness ==
  \E r \in Slots :
    /\ req[r].pc = "done" /\ req[r].hadStale /\ req[r].keyFrom = "fetch"
    /\ req[r].jwksRequests = 1
    /\ cache # <<>>
    /\ cache[Len(cache)] = [kid |-> TokenOf(req[r]).kid, at |-> req[r].keyAt]

C12_Miss(r) ==
  /\ Started(r) /\ C9_Resolves(req'[r])
  /\ ~CacheHit(cache, TokenOf(req'[r]).kid, now)
  /\ TokenOf(req'[r]).kid \notin loading

C13_Pending(r) == req[r].pc \in {"fetching", "waiting", "throttled"}

\* C13: every authenticateToken call eventually produces an outcome, even if
\* the JWKS endpoint never answers: no request stays in flight beyond the
\* request timeout, and a request that times out ends every call waiting for
\* it with 403, without next() and without req.user.
C13_TimeoutEndsCall ==
  /\ \A r \in Slots : C13_Pending(r) ~> (req[r].pc = "done")
  /\ [](\A r \in Slots :
          /\ req[r].pc = "fetching" => now - req[r].fetchAt <= jwksRequestTimeout
          /\ req[r].answer = "timeout" =>
               /\ req[r].pc = "done"
               /\ req[r].res = ForbiddenResponse(
                                  KeyCallbackError(FetchError("timeout")))
               /\ req[r].responses = 1 /\ req[r].nextCalls = 0
               /\ req[r].user = <<>>)

C13_Witness ==
  \E r \in Slots :
    /\ req[r].pc = "done" /\ req[r].answer = "timeout"
    /\ req[r].res.status = 403 /\ req[r].jwksRequests = 1
    /\ req[r].at < now

\* ---- C14
\* C14: one authenticateToken call sends at most one JWKS request; when its
\* request fails (error, kid not in the key set, timeout) the call ends at
\* once with 403 and the failure as reason, the request is not sent again
\* and nothing stays in flight for the kid.
C14_OneRequestNoRetry ==
  /\ [](\A r \in Slots :
          /\ req[r].jwksRequests <= 1
          /\ req[r].answer \notin {"none", "found"} =>
               /\ req[r].pc = "done"
               /\ req[r].res.status = 403
               /\ req[r].nextCalls = 0 /\ req[r].user = <<>>)
  /\ [][\A r \in Slots :
          (req[r].pc = "fetching" /\ req'[r] # req[r]) =>
            /\ req'[r].pc = "done"
            /\ req'[r].jwksRequests = req[r].jwksRequests
            /\ TokenOf(req[r]).kid \notin loading'
            /\ UNCHANGED <<used, limiter>>
            /\ req'[r].answer # "found" =>
                 /\ req'[r].res = ForbiddenResponse(
                      KeyCallbackError(FetchError(req'[r].answer)))
                 /\ cache' = cache]_vars

C14_Witness ==
  \E r \in Slots :
    /\ req[r].pc = "done" /\ req[r].answer = "error"
    /\ req[r].jwksRequests = 1 /\ req[r].res.status = 403
    /\ TokenOf(req[r]).kid \notin loading

\* ---- C15
C15_Racers(kid) ==
  {r \in Slots : /\ req[r].pc \in {"fetching", "waiting"}
                 /\ TokenOf(req[r]).kid = kid}

C16_Order ==
  <<"Received", "HeaderParsed", "KeyResolved", "SignatureChecked",
    "ClaimsValidated", "Accepted">>
C16_Terminal == {"Accepted", "Rejected"}
C16_IsPrefix(s, t) == Len(s) <= Len(t) /\ \A i \in DOMAIN s : s[i] = t[i]
C16_Passed(rq, stage) == \E i \in DOMAIN rq.stages : rq.stages[i] = stage
C16_Ended(rq) == rq.stages # <<>> /\ rq.stages[Len(rq.stages)] \in C16_Terminal

\* C16: the stages a verification call has passed are an initial part of
\* Received, HeaderParsed, KeyResolved, SignatureChecked, ClaimsValidated,
\* Accepted, or such a part short of Accepted followed by Rejected; a stage
\* is passed only with what it stands for (KeyResolved: a key was delivered;
\* SignatureChecked: the signature verified under an accepted algorithm;
\* ClaimsValidated: exp, iss and aud passed; Accepted: claims attached and
\* next() called); the stages of a call in progress only grow, and a call
\* that reached Accepted or Rejected gets no further stage.
C16_StagesInOrder ==
  /\ [](\A r \in Slots :
          LET st == req[r].stages IN
          /\ \/ C16_IsPrefix(st, C16_Order)
             \/ /\ Len(st) >= 2 /\ st[Len(st)] = "Rejected"
                /\ C16_IsPrefix(SubSeq(st, 1, Len(st) - 1), C16_Order)
                /\ Len(st) - 1 < Len(C16_Order)
          /\ C16_Passed(req[r], "Received") <=> req[r].verifyCalled
          /\ C16_Passed(req[r], "HeaderParsed") <=> req[r].getKeyCalled
          /\ C16_Passed(req[r], "KeyResolved") <=> KeyResolved(req[r])
          /\ C16_Passed(req[r], "SignatureChecked") <=>
               /\ KeyResolved(req[r])
               /\ TokenOf(req[r]).alg = "RS256"
               /\ TokenOf(req[r]).sig = "good"
          /\ C16_Passed(req[r], "ClaimsValidated") <=>
               /\ C16_Passed(req[r], "SignatureChecked")
               /\ req[r].at < TokenOf(req[r]).exp
               /\ TokenOf(req[r]).iss = jwtIssuer
               /\ TokenOf(req[r]).aud = jwtAudience
          /\ C16_Passed(req[r], "ClaimsValidated") <=> req[r].verified
          /\ C16_Passed(req[r], "Accepted") <=>
               (req[r].user # <<>> /\ req[r].nextCalls = 1)
          /\ C16_Passed(req[r], "Rejected") <=>
               (req[r].verifyCalled /\ req[r].res.status = 403)
          /\ C16_Ended(req[r]) <=> (req[r].pc = "done" /\ req[r].verifyCalled)
          /\ req[r].responses + req[r].nextCalls <= 1)
  /\ [][\A r \in Slots :
          /\ (C13_Pending(r) /\ req'[r] # req[r]) =>
                /\ C16_IsPrefix(req[r].stages, req'[r].stages)
                /\ req'[r].hdr = req[r].hdr /\ req'[r].at = req[r].at
          /\ (C16_Ended(req[r]) /\ req'[r] # req[r]) =>
                /\ Started(r)
                /\ ~(/\ C16_IsPrefix(req[r].stages, req'[r].stages)
                      /\ Len(req'[r].stages) > Len(req[r].stages))]_vars

C16_Witness ==
  \E r \in Slots :
    /\ req[r].stages = <<"Received", "HeaderParsed", "KeyResolved",
                          "SignatureChecked", "Rejected">>
    /\ req[r].keyFrom = "fetch"
    /\ req[r].res.message = <<Prefix, "jwt expired">>

\* ---- C17
C17_Outcome(rq) == <<rq.res, rq.user, rq.nextCalls>>

\* two finished calls with the same headers, started at the same clock value
\* with the same cache contents, for which the JWKS endpoint answered alike
\* where both asked it
C17_SameStart(a, b) ==
  /\ a.pc = "done" /\ b.pc = "done"
  /\ a.hdr = b.hdr /\ a.at = b.at /\ a.cache0 = b.cache0
  /\ (a.answer = "none" \/ b.answer = "none" \/ a.answer = b.answer)

C18_ClientErrorsWrapped ==
  \A r, q \in Slots :
    req[r].rawErr # <<>> =>
      /\ req[r].keyErr # <<>>
      /\ req[r].keyErr # req[r].rawErr
      /\ req[r].keyErr # <<"Missing kid in token header">>
      /\ req[q].rawErr # <<>> => req[q].keyErr[1] = req[r].keyErr[1]

\* ---- C19
\* C19 (as claimed): the body of a 403 sent for a verifier failure is
\* generic: no part of its message reproduces the verifier's error or the
\* JWKS client's raw error.
C19_GenericForbiddenBody ==
  \A r \in Slots :
    (req[r].res.status = 403 /\ req[r].err # <<>>) =>
      \A i \in DOMAIN Body(req[r].res).message :
        /\ \A j \in DOMAIN req[r].err :
              Body(req[r].res).message[i] # req[r].err[j]
        /\ \A j \in DOMAIN req[r].rawErr :
              Body(req[r].res).message[i] # req[r].rawErr[j]

\* ---- C20
\* C20 (as claimed): every error body of the gate has a statusCode field
\* equal to the HTTP status and a code field, AUTH_TOKEN_MISSING for the 401.
C20_BodyHasStatusCodeAndCode ==
  \A r \in Slots :
    req[r].res.status \in {401, 403} =>
      /\ "statusCode" \in DOMAIN Body(req[r].res)
      /\ "code" \in DOMAIN Body(req[r].res)
      /\ Body(req[r].res).statusCode = req[r].res.status
      /\ req[r].res.status = 401 => Body(req[r].res).code = "AUTH_TOKEN_MISSING"

\* ---- C21
C21_NotExactForm ==
  {HeaderOf(text) : text \in {t \in HeaderTexts : t[1] # "Bearer" \/ Len(t) > 3}}

\* C21 (as claimed): a header whose scheme differs from 'Bearer' in case, or
\* that has more than one space between scheme and token, is answered 401
\* without the verifier being called.
C21_ExactBearerFormOnly ==
  \A r \in Slots :
    (req[r].pc = "done" /\ req[r].hdr \in C21_NotExactForm) =>
      /\ req[r].res.status = 401
      /\ ~req[r].verifyCalled

\* ---- C30
C30_Pending == {"fetching", "waiting", "throttled"}

\* C30: every call of authenticateToken produces exactly one outcome: a call
\* that has ended sent one response (401 or 403) or called next() once, never
\* both and never more than one of either; a call still waiting for its key
\* has produced none yet.
C30_ExactlyOneOutcome ==
  \A r \in Slots :
    LET rq == req[r] IN
    /\ rq.responses + rq.nextCalls <= 1
    /\ rq.pc = "done" => rq.responses + rq.nextCalls = 1
    /\ rq.pc \in C30_Pending => rq.responses + rq.nextCalls = 0
    /\ rq.responses = 1 => rq.res.status \in {401, 403}
    /\ rq.nextCalls = 1 => rq.res = NoResponse

\* a token without a subject went through key resolution over the network and
\* was answered 403 by the callback, with next() never called
C30_Witness ==
  /\ req["r1"].pc = "done"
  /\ req["r1"].keyFrom = "fetch"
  /\ req["r1"].verified
  /\ TokenOf(req["r1"]).sub = ""
  /\ req["r1"].responses = 1
  /\ req["r1"].nextCalls = 0

\* ---- C27
\* what the call rq must have produced, from its own header, the time it
\* started and the answer its own key lookup got
C27_OwnOutcome(rq) ==
  IF TokenMissing(ExtractToken(rq.hdr))
    THEN rq.res = MissingTokenResponse /\ rq.user = <<>> /\ rq.nextCalls = 0
  ELSE IF VerifyDecode(rq.hdr.rest) # <<>>
    THEN /\ rq.res = ForbiddenResponse(VerifyDecode(rq.hdr.rest))
         /\ rq.user = <<>> /\ rq.nextCalls = 0
  ELSE IF ~KeyResolved(rq)
    THEN /\ rq.keyErr # <<>>
         /\ rq.res = ForbiddenResponse(KeyCallbackError(rq.keyErr))
         /\ rq.answer \notin {"none", "found"} =>
               rq.keyErr = getKeyCallback(FetchError(rq.answer))
         /\ rq.user = <<>> /\ rq.nextCalls = 0
  ELSE IF VerifyWithKey(TokenOf(rq), rq.at) # <<>>
    THEN /\ rq.res = ForbiddenResponse(VerifyWithKey(TokenOf(rq), rq.at))
         /\ rq.user = <<>> /\ rq.nextCalls = 0
  ELSE IF TokenOf(rq).sub = ""
    THEN /\ rq.res = ForbiddenResponse(MissingSubjectReason)
         /\ rq.user = <<>> /\ rq.nextCalls = 0
  ELSE /\ rq.res = NoResponse
       /\ rq.user = <<Payload(TokenOf(rq))>>
       /\ rq.nextCalls = 1

\* the step is the end of the JWKS request the call in slot q waits for
C27_OwnAnswer(q) ==
  /\ req[q].pc \in {"fetching", "waiting"}
  /\ TokenOf(req[q]).kid \in loading
  /\ TokenOf(req[q]).kid \notin loading'

\* the step lets the call in slot q, held back by the rate limiter, go on
C27_OwnRetry(q) == req[q].pc = "throttled" /\ req'[q].pc = "fetching"

\* C27: calls in flight together are isolated. The claims attached to a
\* request and the response sent for it are those its own token, its own
\* start time and the answer to its own key lookup give; a call's header and
\* start time do not change while it runs; a step that starts a call changes
\* no other call, and a call changes only when it starts, when the JWKS
\* request for its own kid ends, or when the rate limiter lets it go on.
C27_ConcurrentCallsIsolated ==
  /\ [](\A r \in Slots :
          /\ req[r].pc = "done" => C27_OwnOutcome(req[r])
          /\ req[r].pc \in C30_Pending =>
                req[r].user = <<>> /\ req[r].res = NoResponse)
  /\ [][\A q \in Slots :
          /\ req'[q] # req[q] =>
                Started(q) \/ C27_OwnAnswer(q) \/ C27_OwnRetry(q)
          /\ Started(q) => \A r \in Slots \ {q} : req'[r] = req[r]
          /\ ~Started(q) =>
                req'[q].hdr = req[q].hdr /\ req'[q].at = req[q].at]_vars

\* two calls with tokens of different users under one kid were in flight
\* together, one queued behind the other's JWKS request, and each was
\* accepted with the claims of its own token
C27_Witness ==
  /\ req["r1"].pc = "done" /\ req["r2"].pc = "done"
  /\ TokenOf(req["r1"]).kid = TokenOf(req["r2"]).kid
  /\ req["r1"].jwksRequests + req["r2"].jwksRequests = 1
  /\ req["r1"].keyFrom = "fetch" /\ req["r2"].keyFrom = "fetch"
  /\ req["r1"].keyAt = req["r2"].keyAt
  /\ req["r1"].user = <<Payload(TokenOf(req["r1"]))>>
  /\ req["r2"].user = <<Payload(TokenOf(req["r2"]))>>
  /\ TokenOf(req["r1"]).sub = "u1" /\ TokenOf(req["r2"]).sub = "u2"

\* ---- C26
\* C26 (as claimed): a token returned by generateToken and presented to
\* authenticateToken under the same configuration before its exp is accepted,
\* with the sub of the payload it was generated from.
C26_GeneratedTokenAccepted ==
  \A r \in Slots :
    (/\ req[r].pc = "done"
     /\ req[r].hdr \in IssuedHeaders
     /\ req[r].at < TokenOf(req[r]).exp) =>
       /\ req[r].nextCalls = 1
       /\ req[r].responses = 0
       /\ req[r].user # <<>>
       /\ req[r].user[1].sub = "u1"

\* ---- C28
\* C28: on POST /api/token/deepgram, generateProjectToken is called only for
\* a request whose authenticateToken call ended with next() and no response
\* and whose body passed validation, once, with the sub of the verified
\* claims as the user id; a request answered 401 or 403 by the gate never
\* gets past the gate: no body validation, no token generation.
C28_GenerationOnlyAfterGate ==
  \A r \in Slots :
    /\ req[r].generateCalls >= 1 =>
          /\ req[r].generateCalls = 1
          /\ req[r].pc = "done" /\ req[r].nextCalls = 1 /\ req[r].responses = 0
          /\ req[r].verified
          /\ req[r].route = "ended" /\ req[r].routeStatus \in {200, 500}
          /\ req[r].userId = <<req[r].user[1].sub>>
          /\ req[r].userId = <<TokenOf(req[r]).sub>>
          /\ req[r].userId # <<"">>
    /\ req[r].res.status \in {401, 403} =>
          /\ req[r].generateCalls = 0
          /\ req[r].route = "auth"
          /\ req[r].routeStatus = 0
    /\ req[r].routeStatus = 400 => req[r].generateCalls = 0

\* a request with a verified token and a valid body got its Deepgram token
C28_Witness ==
  /\ req["r1"].generateCalls = 1
  /\ req["r1"].routeStatus = 200
  /\ req["r1"].keyFrom = "fetch"
  /\ req["r1"].userId = <<"u1">>

\* ---- C22
\* the issuer text constructJwksUri was applied to is an absolute http or
\* https URL
C22_HttpIssuer ==
  /\ boot.constructed # <<>>
  /\ ParseUrl(boot.env.JWT_ISSUER).ok
  /\ ParseUrl(boot.env.JWT_ISSUER).protocol \in {"https:", "http:"}

\* the path without the slashes it ends in
RECURSIVE C22_TrimSlashes(_)
C22_TrimSlashes(pathname) ==
  IF endsWithSlash(pathname)
    THEN C22_TrimSlashes(SubSeq(pathname, 1, Len(pathname) - 1))
  ELSE pathname

\* the result has every component of the issuer as the URL parser reads it,
\* but for the path, which is path
C22_SameBut(path) ==
  LET issuer == ParseUrl(boot.env.JWT_ISSUER)
      result == boot.constructed[1]
      uri == ParseUrl(result.uri)
  IN /\ result.ok /\ uri.ok
     /\ result.uri = SerializeUrl(uri)
     /\ uri.protocol = issuer.protocol
     /\ uri.host = issuer.host
     /\ uri.port = issuer.port
     /\ uri.search = issuer.search
     /\ uri.hash = issuer.hash
     /\ uri.pathname = path

\* C22 (as claimed): for every absolute http or https issuer constructJwksUri
\* returns the issuer with its path made to end in exactly one '/' followed
\* by '.well-known/jwks.json', scheme, host, port, path segments, query and
\* fragment kept.
C22_PathEndsInExactlyOneSlash ==
  C22_HttpIssuer =>
    C22_SameBut(C22_TrimSlashes(ParseUrl(boot.env.JWT_ISSUER).pathname)
                  \o <<"/", ".well-known/jwks.json">>)

\* C22 (amended): for every absolute http or https issuer constructJwksUri
\* returns the issuer as the URL parser reads it (scheme in lower case, the
\* scheme's default port left out, an empty path read as '/'), with a '/'
\* appended to the path only if the path does not end in one already, and
\* '.well-known/jwks.json' appended after it; slashes the path already ends
\* in are all kept, and host, port, path segments, query and fragment are
\* unchanged.
C22_SlashAppendedIfMissing ==
  C22_HttpIssuer =>
    LET pathname == ParseUrl(boot.env.JWT_ISSUER).pathname IN
    C22_SameBut(pathname
                  \o (IF endsWithSlash(pathname) THEN <<>> ELSE <<"/">>)
                  \o <<".well-known/jwks.json">>)

\* constructJwksUri was applied to 'http://example.com:8443/auth0//?tenant=test#fragment'
C22_Witness ==
  /\ C22_HttpIssuer
  /\ boot.env.JWT_ISSUER = <<"http:", "//", "example.com", ":8443", "/", "auth0",
                             "/", "/", "?tenant=test", "#fragment">>
  /\ boot.constructed[1].uri = <<"http:", "//", "example.com", ":8443", "/", "auth0",
                                 "/", "/", ".well-known/jwks.json",
                                 "?tenant=test", "#fragment">>

\* ---- C23
\* the issuer is written the way the URL parser writes it out
C23_NormalForm(issuer) ==
  /\ ParseUrl(issuer).ok
  /\ SerializeUrl(ParseUrl(issuer)) \in {issuer, issuer \o <<"/">>}

\* C23 (as claimed): the URL the JWKS client fetches keys from is
\* constructJwksUri(issuer), for https and http issuers, with or without a
\* path (issuers taken as the URL parser writes them, so that equal texts
\* mean equal URLs).
C23_FetchedUriIsConstructed ==
  LET issuer == ConfigOf(boot.env).jwtIssuer IN
  (/\ boot.fetched # <<>>
   /\ C23_NormalForm(issuer)
   /\ constructJwksUri(issuer).ok) =>
     boot.fetched = constructJwksUri(issuer).uri

\* ---- C24
\* C24 (as claimed): an issuer that does not parse as an absolute URL, or
\* whose scheme is neither http nor https, makes the load of the configuration
\* fail; with such an issuer no client is created and no request is served.
C24_BadIssuerFailsAtLoad ==
  ~constructJwksUri(ConfigOf(boot.env).jwtIssuer).ok =>
    /\ boot.status # "loaded"
    /\ boot.client = <<>>
    /\ boot.fetched = <<>>

\* ---- C25
C25_InRange(c) ==
  /\ c.jwksCacheMaxEntries \in 1..100
  /\ c.jwksCacheMaxAgeMs \in 60000..3600000
  /\ c.jwksRequestTimeoutMs \in 5000..60000

\* C25: if the load of the configuration module completes, jwksCacheMaxEntries
\* is in 1..100, jwksCacheMaxAgeMs in 60000..3600000 and jwksRequestTimeoutMs
\* in 5000..60000; with a value outside its range the load throws, and
\* nothing that needs the configuration (the JWKS client, a key request)
\* comes to exist.
C25_JwksSettingsInRange ==
  /\ boot.status = "loaded" =>
        /\ ReadError(boot.env) = <<>>
        /\ C25_InRange(ConfigOf(boot.env))
  /\ (boot.status # "start" /\ ~C25_InRange(ConfigOf(boot.env))) =>
        /\ boot.status = "failed"
        /\ boot.error # <<>>
  /\ boot.status # "loaded" => boot.client = <<>> /\ boot.fetched = <<>>

\* the load completed with every setting on a limit of its range, and the
\* JWKS client was created
C25_Witness ==
  /\ boot.status = "loaded"
  /\ boot.client # <<>>
  /\ boot.env.JWKS_CACHE_MAX_ENTRIES = EnvInt(100)
  /\ boot.env.JWKS_CACHE_MAX_AGE_MS = EnvInt(60000)
  /\ boot.env.JWKS_REQUEST_TIMEOUT_MS = EnvInt(60000)
  /\ ConfigOf(boot.env).jwksRequestTimeoutMs = 60000

\* ---- C29
\* the step starts a request to the health route in slot r
C29_Started(r) ==
  /\ health.calls[r].pc \in {"idle", "done"}
  /\ health'.calls[r] # health.calls[r]

\* the step ends the probe of the request in slot r
C29_Probed(r) == health.calls[r].pc = "probing" /\ health'.calls[r].pc = "done"

\* there is a cached result and less than a minute has passed since its
\* timestamp
C29_Fresh ==
  health.cache # <<>> /\ health.clock - health.cache[1].timestamp < 60000

\* C29: the health endpoint caches Deepgram connectivity for one minute. A
\* request that starts less than 60000 ms after the cached timestamp makes no
\* probe, leaves the cache alone and reports the cached value; a request that
\* starts 60000 ms or more after it (or with nothing cached) makes exactly
\* one probe, and when the probe ends its result replaces the cached one,
\* stamped with the time the request started, and is what the request
\* reports. Nothing else probes or writes the cache.
C29_HealthCachedOneMinute ==
  /\ [][\A r \in Slots :
          /\ (C29_Started(r) /\ C29_Fresh) =>
                /\ health'.probes = health.probes
                /\ health'.cache = health.cache
                /\ health'.calls[r].pc = "done"
                /\ health'.calls[r].probed = 0
                /\ health'.calls[r].reported = <<health.cache[1].connected>>
          /\ (C29_Started(r) /\ ~C29_Fresh) =>
                /\ health'.probes = health.probes + 1
                /\ health'.cache = health.cache
                /\ health'.calls[r].pc = "probing"
                /\ health'.calls[r].probed = 1
          /\ C29_Probed(r) =>
                /\ health'.probes = health.probes
                /\ health'.calls[r].probed = 1
                /\ health'.cache =
                     <<[connected |-> health'.calls[r].reported[1],
                        timestamp |-> health.calls[r].startedAt]>>]_vars
  /\ [][/\ health'.probes # health.probes => \E r \in Slots : C29_Started(r)
        /\ health'.cache # health.cache => \E r \in Slots : C29_Probed(r)]_vars
  /\ [](\A r \in Slots :
          /\ health.calls[r].probed <= 1
          /\ health.calls[r].pc = "done" =>
                health.calls[r].status =
                  (IF health.calls[r].reported = <<TRUE>> THEN 200 ELSE 503))

\* a request that started exactly 60000 ms after the cached timestamp has
\* probed once and replaced the cached result by a different one; the
\* request before it, 59999 ms after the timestamp, was answered from the
\* cache
C29_Witness ==
  /\ health.calls["r1"].pc = "done"
  /\ health.calls["r1"].probed = 1
  /\ health.calls["r1"].seen # <<>>
  /\ health.calls["r1"].startedAt - health.calls["r1"].seen[1].timestamp = 60000
  /\ health.cache = <<[connected |-> health.calls["r1"].reported[1],
                       timestamp |-> health.calls["r1"].startedAt]>>
  /\ health.cache[1].connected # health.calls["r1"].seen[1].connected
  /\ health.calls["r2"].pc = "done"
  /\ health.calls["r2"].probed = 0
  /\ health.calls["r2"].seen = health.calls["r1"].seen
  /\ health.calls["r2"].startedAt - health.calls["r2"].seen[1].timestamp = 59999

====
